---- MODULE Spec2Model ----
(***************************************************************************)
(* A model of simple_stock_analyzer.py: the interactive loop of main, the  *)
(* volatility estimate of get_stock_data, the in-the-money probability of  *)
(* calculate_probability_itm and the option selection and annotation of    *)
(* get_options_data.                                                       *)
(*                                                                         *)
(* Numbers.  Prices and strikes are positive integers (price units); band  *)
(* tests and delta/theta are exact rationals.  Floating-point values that  *)
(* can be not-a-number or infinite are tagged records [k, v]: k is "num",  *)
(* "nan", "inf", "ninf" or "none" (Python's None), and for "num" v is the  *)
(* value in fixed point, Scale units to one.  numpy arithmetic does not    *)
(* raise on a zero divisor or a nan operand: it yields inf or nan.         *)
(***************************************************************************)
EXTENDS Integers, Sequences, FiniteSets

VARIABLES
    pc,            \* main: "strategy", "symbol", "stock", "options", "done"
    strategy,      \* main: "calls" | "puts" | "" before the first choice
    stock_info,    \* main: <<>> for None, else <<record>>
    error,         \* main: "" for None, else the message of get_stock_data
    options_data,  \* main: <<>> for None, else <<sequence of batches>>
    options_error, \* main: "" for None, else the message of get_options_data
    report,        \* <<>> or <<what display_results showed this iteration>>
    output,        \* the messages the current loop iteration printed, in order
    history,       \* data source: <<>> or <<answer to stock.history>> this iteration
    listing,       \* data source: <<>> or <<answer to stock.options>> this iteration
    asked,         \* data source: the chains served, [expiration, feed] in order
    fn_args,       \* the arguments of a direct call of a pure function
    fn_prob,       \* <<>> or <<result of calculate_probability_itm(fn_args)>>
    fn_delta       \* <<>> or <<the delta of the annotation step for fn_args>>

main_vars == <<pc, strategy, stock_info, error, options_data, options_error,
               report, output, history, listing, asked>>

fn_vars == <<fn_args, fn_prob, fn_delta>>

vars == <<main_vars, fn_vars>>

(***************************************************************************)
(* Bounds of the model.                                                    *)
(***************************************************************************)
MaxHist == 22
MaxExpirations == 3

(***************************************************************************)
(* Program constants.                                                      *)
(***************************************************************************)
Window == 20
MaxSelected == 10
FallbackPrice == 100
FallbackOTM == 30
FallbackITM == 70

Scale == 10^4

None == <<>>
Some(x) == <<x>>

Num(v) == [k |-> "num", v |-> v]
NaN == [k |-> "nan", v |-> 0]
PosInf == [k |-> "inf", v |-> 0]
NegInf == [k |-> "ninf", v |-> 0]
NoneFloat == [k |-> "none", v |-> 0]

Abs(x) == IF x < 0 THEN -x ELSE x
Sign(x) == IF x < 0 THEN -1 ELSE IF x > 0 THEN 1 ELSE 0
Min(a, b) == IF a <= b THEN a ELSE b
Max(a, b) == IF a >= b THEN a ELSE b

\* Division rounding toward zero, for either sign of a and b (b # 0).
Div(a, b) == Sign(a) * Sign(b) * (Abs(a) \div Abs(b))

RECURSIVE SqrtBetween(_, _, _)
SqrtBetween(x, lo, hi) ==
    IF lo >= hi THEN lo
    ELSE LET mid == (lo + hi + 1) \div 2
         IN IF mid * mid <= x THEN SqrtBetween(x, mid, hi)
            ELSE SqrtBetween(x, lo, mid - 1)

\* np.sqrt on a non-negative integer: the largest r with r * r <= x.
ISqrt(x) == SqrtBetween(x, 0, 46340)

\* np.sqrt(x) for x in fixed point.
SqrtFP(x) == ISqrt(x * Scale)

\* np.log(a / b) in fixed point, a, b > 0: 2 atanh((a - b) / (a + b)) by its
\* series up to the 7th power (|a - b| / (a + b) <= 1/2 for the model's prices).
LnRatio(a, b) ==
    LET z == Div((a - b) * Scale, a + b)
        z2 == Div(z * z, Scale)
        z3 == Div(z * z2, Scale)
        z5 == Div(z3 * z2, Scale)
        z7 == Div(z5 * z2, Scale)
    IN 2 * z + Div(2 * z3, 3) + Div(2 * z5, 5) + Div(2 * z7, 7)

\* The standard normal CDF at 0, 0.1, ..., 4.1, in fixed point.
CdfTable ==
    <<5000, 5398, 5793, 6179, 6554, 6915, 7257, 7580, 7881, 8159,
      8413, 8643, 8849, 9032, 9192, 9332, 9452, 9554, 9641, 9713,
      9772, 9821, 9861, 9893, 9918, 9938, 9953, 9965, 9974, 9981,
      9987, 9990, 9993, 9995, 9997, 9998, 9998, 9999, 9999, 10000,
      10000, 10000>>

\* scipy's norm.cdf at a finite x >= 0 in fixed point: the table, interpolated.
CdfNonNeg(x) ==
    LET step == Scale \div 10
        i == x \div step
    IN IF i + 2 > Len(CdfTable) THEN Scale
       ELSE CdfTable[i + 1]
            + ((CdfTable[i + 2] - CdfTable[i + 1]) * (x % step)) \div step

\* norm.cdf on a tagged float: cdf(-inf) = 0, cdf(inf) = 1, cdf(nan) = nan.
norm_cdf(d) ==
    CASE d.k = "nan" -> NaN
      [] d.k = "inf" -> Num(Scale)
      [] d.k = "ninf" -> Num(0)
      [] OTHER -> IF d.v >= 0 THEN Num(CdfNonNeg(d.v))
                  ELSE Num(Scale - CdfNonNeg(-d.v))

\* numpy's a / b for finite fixed-point a, b: no exception on b = 0.
NpDivide(a, b) ==
    IF b = 0
    THEN (IF a = 0 THEN NaN ELSE IF a > 0 THEN PosInf ELSE NegInf)
    ELSE Num(Div(a * Scale, b))

\* The except branch of calculate_probability_itm, in percent (fixed point).
Fallback(current_price, strike, is_call) ==
    IF is_call
    THEN (IF strike > current_price THEN Num(FallbackOTM * Scale)
          ELSE Num(FallbackITM * Scale))
    ELSE (IF strike < current_price THEN Num(FallbackOTM * Scale)
          ELSE Num(FallbackITM * Scale))

\* d1 of calculate_probability_itm for a numeric volatility (percent, fixed
\* point) and days_to_expiry > 0.
D1(current_price, strike, vol_pct, days_to_expiry) ==
    LET vol_decimal == Div(vol_pct, 100)
        time_to_expiry == (days_to_expiry * Scale) \div 365
        rate == (5 * Scale) \div 100
        drift == Div((rate + Div(Div(vol_decimal * vol_decimal, Scale), 2))
                     * time_to_expiry, Scale)
        numer == LnRatio(current_price, strike) + drift
        prod == Div(vol_decimal * SqrtFP(time_to_expiry), Scale)
        \* a non-zero volatility never rounds to a zero divisor
        denom == IF vol_decimal # 0 /\ prod = 0 THEN Sign(vol_decimal) ELSE prod
    IN NpDivide(numer, denom)

\* The result in percent: probability * 100.
Percent(p) == IF p.k = "num" THEN Num(p.v * 100) ELSE p

\* 1 - norm.cdf(d1)
OneMinus(p) == IF p.k = "num" THEN Num(Scale - p.v) ELSE p

\* calculate_probability_itm treating an expired option as a failed
\* computation (the fallback) instead of returning 0.
ProbabilityNoExpiryCheck(current_price, strike, volatility, days_to_expiry, is_call) ==
    IF volatility.k = "none" \/ days_to_expiry <= 0
    THEN Fallback(current_price, strike, is_call)
    ELSE IF volatility.k = "nan" THEN NaN
    ELSE LET c == norm_cdf(D1(current_price, strike, volatility.v, days_to_expiry))
         IN Percent(IF is_call THEN c ELSE OneMinus(c))

\* calculate_probability_itm: percent in fixed point, or nan.  A volatility
\* of None raises TypeError at volatility / 100, which the bare except turns
\* into the fallback; a nan or zero volatility raises nothing.  The third
\* test is time_to_expiry <= 0 with time_to_expiry = days_to_expiry / 365.
\* scipy is taken to be installed (the import inside the try succeeds).
calculate_probability_itm(current_price, strike, volatility, days_to_expiry, is_call) ==
    IF days_to_expiry <= 0 THEN Num(0)
    ELSE IF volatility.k = "none" THEN Fallback(current_price, strike, is_call)
    ELSE IF days_to_expiry * Scale <= 0 THEN Num(0)
    ELSE IF volatility.k = "nan" THEN NaN
    ELSE LET c == norm_cdf(D1(current_price, strike, volatility.v, days_to_expiry))
         IN Percent(IF is_call THEN c ELSE OneMinus(c))

(***************************************************************************)
(* Exact rationals [n, d] with d > 0, for delta and theta.                 *)
(***************************************************************************)
Rat(n, d) == [n |-> n, d |-> d]
RatLess(a, b) == a.n * b.d < b.n * a.d
RatMin(a, b) == IF RatLess(b, a) THEN b ELSE a
RatMax(a, b) == IF RatLess(a, b) THEN b ELSE a

\* The linear delta before the clamp, current_price > 0:
\* 0.5 + 0.5 (current_price - strike) / (0.1 current_price) for a call,
\* -0.5 + 0.5 (strike - current_price) / (0.1 current_price) for a put.
RawDelta(current_price, strike, is_call) ==
    IF is_call
    THEN Rat(current_price + 10 * (current_price - strike), 2 * current_price)
    ELSE Rat(10 * (strike - current_price) - current_price, 2 * current_price)

\* max(-1, min(1, delta))
Clamp(delta) == RatMax(Rat(-1, 1), RatMin(Rat(1, 1), delta))

\* The delta without the clamp.
DeltaUnclamped(current_price, strike, is_call) ==
    RawDelta(current_price, strike, is_call)

\* The delta the annotation step stores.
Delta(current_price, strike, is_call) ==
    Clamp(RawDelta(current_price, strike, is_call))

\* -lastPrice / (days_to_expiry + 1) if days_to_expiry > 0 else 0
Theta(lastPrice, days_to_expiry) ==
    IF days_to_expiry > 0 THEN Rat(-lastPrice, days_to_expiry + 1) ELSE Rat(0, 1)

(***************************************************************************)
(* get_stock_data                                                          *)
(***************************************************************************)
RECURSIVE SumSeq(_)
SumSeq(s) == IF s = <<>> THEN 0 ELSE Head(s) + SumSeq(Tail(s))

\* data['Close'].pct_change(): the first return is nan.
pct_change(close) ==
    [t \in 1..Len(close) |->
        IF t = 1 THEN NaN
        ELSE Num(Div((close[t] - close[t - 1]) * Scale, close[t - 1]))]

\* The sample standard deviation (ddof = 1) of a window of numeric returns.
SampleStd(w) ==
    LET n == Len(w)
        mean == Div(SumSeq([i \in 1..n |-> w[i].v]), n)
        sq == [i \in 1..n |-> (w[i].v - mean) * (w[i].v - mean)]
    IN ISqrt(Div(SumSeq(sq), n - 1))

\* rolling(window=20).std().iloc[-1]: nan unless the trailing window holds
\* 20 numeric returns (min_periods defaults to the window).
rolling_std_last(returns) ==
    LET n == Len(returns)
        w == SubSeq(returns, Max(1, n - Window + 1), n)
        numeric == {i \in 1..Len(w) : w[i].k = "num"}
    IN IF Cardinality(numeric) < Window THEN NaN ELSE Num(SampleStd(w))

\* ... * np.sqrt(252) * 100, in percent (fixed point); nan stays nan.
Annualize(std) ==
    IF std.k = "num" THEN Num(Div(std.v * ISqrt(252 * 10^6) * 100, 10^3))
    ELSE std

NoDataMsg == "No data found for this symbol"
StockErrorMsg == "Error: exception in get_stock_data"

\* get_stock_data on the data source's answer fetch = [raises, close]:
\* (stock_info, error) as [info, err].
get_stock_data(fetch) ==
    IF fetch.raises THEN [info |-> None, err |-> StockErrorMsg]
    ELSE IF fetch.close = <<>> THEN [info |-> None, err |-> NoDataMsg]
    ELSE [info |-> Some([current_price |-> fetch.close[Len(fetch.close)],
                         volatility |-> Annualize(rolling_std_last(pct_change(fetch.close))),
                         data |-> fetch.close]),
          err |-> ""]

(***************************************************************************)
(* get_options_data                                                        *)
(*                                                                         *)
(* The data source answers stock.options with lst = [raises, options] and  *)
(* each requested expiration with a feed [fail, opt, price, days]: fail    *)
(* names the step of the loop body that raises ("none", "chain" for        *)
(* stock.option_chain, "info" for stock.info, "process" for the work on    *)
(* the chain), opt = [calls, puts] is the chain, price is                  *)
(* info.get('currentPrice', 0) and days is the whole days to expiration.   *)
(***************************************************************************)
\* Lines 97-99: the current price, or the first call strike, or 100.
CurrentPrice(feed) ==
    IF feed.price = 0
    THEN (IF feed.opt.calls # <<>> THEN feed.opt.calls[1].strike ELSE FallbackPrice)
    ELSE feed.price

\* The call band with the low end included.
InCallBandInclusive(strike, current_price) ==
    strike >= current_price /\ strike * 100 <= current_price * 115

\* strike > current_price and strike <= current_price * 1.15
InCallBand(strike, current_price) ==
    strike > current_price /\ strike * 100 <= current_price * 115

\* The put band 10% wide instead of 5%.
InPutBandWide(strike, current_price) ==
    strike < current_price /\ strike * 100 >= current_price * 90

\* strike < current_price and strike >= current_price * 0.95
InPutBand(strike, current_price) ==
    strike < current_price /\ strike * 100 >= current_price * 95

\* filtered_options: the rows of the strategy's chain inside the band, in
\* the chain's order.
FilterOptions(opt, current_price, strat) ==
    IF strat = "calls"
    THEN SelectSeq(opt.calls, LAMBDA r : InCallBand(r.strike, current_price))
    ELSE SelectSeq(opt.puts, LAMBDA r : InPutBand(r.strike, current_price))

\* The last ten rows instead of the first ten.
SelectTail(filtered) ==
    IF Len(filtered) >= MaxSelected
    THEN SubSeq(filtered, Len(filtered) - MaxSelected + 1, Len(filtered))
    ELSE filtered

\* selected_options: head(10) of the filtered rows.
SelectOptions(filtered) ==
    IF Len(filtered) >= MaxSelected THEN SubSeq(filtered, 1, MaxSelected)
    ELSE filtered

\* One row with its delta, theta and probability columns set.
Annotate(row, current_price, volatility, days_to_expiry, is_call) ==
    [strike |-> row.strike, lastPrice |-> row.lastPrice,
     volume |-> row.volume, openInterest |-> row.openInterest,
     delta |-> Delta(current_price, row.strike, is_call),
     theta |-> Theta(row.lastPrice, days_to_expiry),
     probability |-> calculate_probability_itm(current_price, row.strike,
                        volatility, days_to_expiry, is_call)]

\* The body of the loop for one expiration that raises nothing: its batch.
Batch(expiration, feed, volatility, strat) ==
    LET current_price == CurrentPrice(feed)
        selected == SelectOptions(FilterOptions(feed.opt, current_price, strat))
    IN [expiration |-> expiration,
        days_to_expiry |-> feed.days,
        options |-> [i \in 1..Len(selected) |->
                        Annotate(selected[i], current_price, volatility,
                                 feed.days, strat = "calls")]]

\* next_two_expirations = options[:2]
NextTwoExpirations(options) == SubSeq(options, 1, Min(2, Len(options)))

Msg(text, expiration) == [text |-> text, exp |-> expiration]

ExpirationErrorMsg == "Error getting options for"
NoOptionsMsg == "No options data available"
OptionsErrorMsg == "Error getting options: exception"

\* The loop with break in place of continue: the first raising expiration
\* ends it.
RECURSIVE ExpirationLoopBreak(_, _, _, _, _, _)
ExpirationLoopBreak(exps, feedOf, volatility, strat, batches, printed) ==
    IF exps = <<>> THEN [batches |-> batches, printed |-> printed]
    ELSE LET e == Head(exps)
         IN IF feedOf[e].fail # "none"
            THEN [batches |-> batches,
                  printed |-> Append(printed, Msg(ExpirationErrorMsg, e))]
            ELSE ExpirationLoopBreak(Tail(exps), feedOf, volatility, strat,
                                Append(batches, Batch(e, feedOf[e], volatility, strat)),
                                printed)

\* The for loop over exps with the batches and messages so far: a raising
\* expiration prints and continues, another appends its batch.
RECURSIVE ExpirationLoop(_, _, _, _, _, _)
ExpirationLoop(exps, feedOf, volatility, strat, batches, printed) ==
    IF exps = <<>> THEN [batches |-> batches, printed |-> printed]
    ELSE LET e == Head(exps)
         IN IF feedOf[e].fail # "none"
            THEN ExpirationLoop(Tail(exps), feedOf, volatility, strat, batches,
                                Append(printed, Msg(ExpirationErrorMsg, e)))
            ELSE ExpirationLoop(Tail(exps), feedOf, volatility, strat,
                                Append(batches, Batch(e, feedOf[e], volatility, strat)),
                                printed)

\* get_options_data without the test for an empty listing.
get_options_data_no_empty_test(lst, feedOf, volatility, strat) ==
    IF lst.raises
    THEN [data |-> None, err |-> OptionsErrorMsg, asked |-> <<>>, printed |-> <<>>]
    ELSE LET exps == NextTwoExpirations(lst.options)
             r == ExpirationLoop(exps, feedOf, volatility, strat, <<>>, <<>>)
         IN [data |-> Some(r.batches), err |-> "",
             asked |-> [i \in 1..Len(exps) |->
                           [expiration |-> exps[i], feed |-> feedOf[exps[i]]]],
             printed |-> r.printed]

\* get_options_data: (options_data, error) as [data, err], with the chains
\* it requested and the messages it printed.
get_options_data(lst, feedOf, volatility, strat) ==
    IF lst.raises
    THEN [data |-> None, err |-> OptionsErrorMsg, asked |-> <<>>, printed |-> <<>>]
    ELSE IF lst.options = <<>>
    THEN [data |-> None, err |-> NoOptionsMsg, asked |-> <<>>, printed |-> <<>>]
    ELSE LET exps == NextTwoExpirations(lst.options)
             r == ExpirationLoop(exps, feedOf, volatility, strat, <<>>, <<>>)
         IN [data |-> Some(r.batches), err |-> "",
             asked |-> [i \in 1..Len(exps) |->
                           [expiration |-> exps[i], feed |-> feedOf[exps[i]]]],
             printed |-> r.printed]

\* display_results: what the report shows.  A None or empty options_data
\* shows "No options data available" in place of the batches.
display_results(info, data, strat) ==
    [strategy |-> strat,
     current_price |-> info.current_price,
     volatility |-> info.volatility,
     batches |-> IF data # None /\ data[1] # <<>> THEN data[1] ELSE <<>>]

(***************************************************************************)
(* What the data source and the user can supply.                           *)
(***************************************************************************)
Row(strike, lastPrice, volume, openInterest) ==
    [strike |-> strike, lastPrice |-> lastPrice,
     volume |-> volume, openInterest |-> openInterest]

\* A chain of every strike from lo to hi, ascending.
ChainAsc(lo, hi) ==
    [i \in 1..(hi - lo + 1) |-> Row(lo + i - 1, hi - lo + 2 - i, 10 * i, 100 + i)]

\* A chain listing the given strikes in the given order.
ChainOf(strikes) ==
    [i \in 1..Len(strikes) |-> Row(strikes[i], 2 * i + 1, i, 7 * i)]

WideChain ==
    [calls |-> ChainAsc(188, 232), puts |-> ChainAsc(187, 231)]

SparseChain ==
    [calls |-> ChainOf(<<230, 200, 190, 210, 231, 189, 199, 253, 209, 254, 220>>),
     puts |-> ChainOf(<<199, 230, 190, 189, 253, 209, 200, 208, 210, 220>>)]

NoCallsChain ==
    [calls |-> <<>>, puts |-> ChainOf(<<95, 99, 100, 94, 105>>)]

Chains == {WideChain, SparseChain, NoCallsChain}

\* info.get('currentPrice', 0): 0 when the data source has none.
InfoPrices == {0, 200, 220}

DaysToExpiry == {-1, 0, 30}

Feeds ==
    [fail : {"chain", "info", "process"}, opt : {NoCallsChain}, price : {0},
     days : {0}]
    \cup [fail : {"none"}, opt : Chains, price : InfoPrices, days : DaysToExpiry]

\* The answer for an expiration after the second.
LateFeed == [fail |-> "none", opt |-> SparseChain, price |-> 200, days |-> 30]

Listings ==
    {[raises |-> TRUE, options |-> <<>>]}
    \cup {[raises |-> FALSE, options |-> [i \in 1..n |-> i]] : n \in 0..MaxExpirations}

\* A price history of n closes alternating between p + d and p.
Hist(n, p, d) == [t \in 1..n |-> p + d * (t % 2)]

HistLens == {0, 1, Window - 1, Window, Window + 1, MaxHist}

StockFetches ==
    {[raises |-> TRUE, close |-> <<>>]}
    \cup {[raises |-> FALSE, close |-> Hist(n, pd[1], pd[2])] :
            n \in HistLens, pd \in {<<200, 0>>, <<200, 2>>, <<220, 5>>}}

StrategyInputs == {"1", "2", "quit", "x"}
SymbolInputs == {"AAPL", "QUIT", ""}

(***************************************************************************)
(* main                                                                    *)
(***************************************************************************)
Init ==
    /\ pc = "strategy"
    /\ strategy = ""
    /\ stock_info = None
    /\ error = ""
    /\ options_data = None
    /\ options_error = ""
    /\ report = None
    /\ output = <<>>
    /\ history = None
    /\ listing = None
    /\ asked = <<>>
    /\ fn_args = [current_price |-> 100, strike |-> 100, volatility |-> NaN,
                  days_to_expiry |-> 0, is_call |-> TRUE]
    /\ fn_prob = None
    /\ fn_delta = None

\* Lines 220-240: a new iteration reads the strategy.  The locals of the
\* previous iteration are dead (each is assigned before it is read again)
\* and are cleared here with the iteration's output.
ReadStrategy ==
    /\ pc = "strategy"
    /\ \E choice \in StrategyInputs :
        /\ pc' = CASE choice = "quit" -> "done"
                   [] choice \in {"1", "2"} -> "symbol"
                   [] OTHER -> "strategy"
        /\ strategy' = CASE choice = "1" -> "calls"
                         [] choice = "2" -> "puts"
                         [] OTHER -> strategy
        /\ output' = CASE choice = "quit" -> <<Msg("Goodbye!", 0)>>
                       [] choice \in {"1", "2"} -> <<>>
                       [] OTHER -> <<Msg("Please enter 1 or 2", 0)>>
    /\ stock_info' = None
    /\ error' = ""
    /\ options_data' = None
    /\ options_error' = ""
    /\ report' = None
    /\ history' = None
    /\ listing' = None
    /\ asked' = <<>>
    /\ UNCHANGED fn_vars

\* Lines 243-253: the symbol, upper-cased; quit words end the program and an
\* empty symbol restarts the iteration.
ReadSymbol ==
    /\ pc = "symbol"
    /\ \E symbol \in SymbolInputs :
        /\ pc' = CASE symbol = "QUIT" -> "done"
                   [] symbol = "" -> "strategy"
                   [] OTHER -> "stock"
        /\ output' = CASE symbol = "QUIT" -> <<Msg("Goodbye!", 0)>>
                       [] symbol = "" -> <<Msg("Please enter a valid stock symbol", 0)>>
                       [] OTHER -> <<Msg("Analyzing", 0)>>
    /\ UNCHANGED <<strategy, stock_info, error, options_data, options_error,
                   report, history, listing, asked, fn_vars>>

\* Lines 256-260: get_stock_data, and on an error its message and continue.
AnalyzeStock ==
    /\ pc = "stock"
    /\ \E fetch \in StockFetches :
        \E r \in {get_stock_data(fetch)} :
           /\ history' = Some(fetch)
           /\ stock_info' = r.info
           /\ error' = r.err
           /\ output' = IF r.err # "" THEN Append(output, Msg(r.err, 0)) ELSE output
           /\ pc' = IF r.err # "" THEN "strategy" ELSE "options"
    /\ UNCHANGED <<strategy, options_data, options_error, report, listing,
                   asked, fn_vars>>

\* Lines 263-273: get_options_data with the volatility of stock_info, then
\* display_results, with None for the options when an error came back.
AnalyzeOptions ==
    /\ pc = "options"
    /\ \E lst \in Listings :
       \E f1 \in (IF Len(lst.options) >= 1 THEN Feeds ELSE {LateFeed}) :
       \E f2 \in (IF Len(lst.options) >= 2 THEN Feeds ELSE {LateFeed}) :
       \E r \in {get_options_data(lst,
                     [e \in 1..(MaxExpirations + 1) |->
                         IF e = 1 THEN f1 ELSE IF e = 2 THEN f2 ELSE LateFeed],
                     stock_info[1].volatility, strategy)} :
           /\ listing' = Some(lst)
           /\ asked' = r.asked
           /\ options_data' = r.data
           /\ options_error' = r.err
           /\ output' = output \o r.printed
                         \o (IF r.err # "" THEN <<Msg(r.err, 0)>> ELSE <<>>)
           /\ report' = Some(display_results(stock_info[1],
                                 IF r.err # "" THEN None ELSE r.data, strategy))
    /\ pc' = "strategy"
    /\ UNCHANGED <<strategy, stock_info, error, history, fn_vars>>

Next == ReadStrategy \/ ReadSymbol \/ AnalyzeStock \/ AnalyzeOptions

Spec == Init /\ [][Next]_vars

(***************************************************************************)
(* Direct calls of the pure functions on a grid of arguments.              *)
(***************************************************************************)
FnVolatilities ==
    {NoneFloat, NaN, Num(0), Num(-20 * Scale), Num(20 * Scale), Num(80 * Scale)}

FnArgs ==
    [current_price : {100, 240},
     strike : {80, 100, 105, 115, 120, 240, 300},
     volatility : FnVolatilities,
     days_to_expiry : {-5, 0, 1, 30},
     is_call : BOOLEAN]

FnInit ==
    /\ pc = "done"
    /\ strategy = ""
    /\ stock_info = None
    /\ error = ""
    /\ options_data = None
    /\ options_error = ""
    /\ report = None
    /\ output = <<>>
    /\ history = None
    /\ listing = None
    /\ asked = <<>>
    /\ fn_args \in FnArgs
    /\ fn_prob = None
    /\ fn_delta = None

CallProbability ==
    /\ fn_prob = None
    /\ fn_prob' = Some(calculate_probability_itm(fn_args.current_price,
                          fn_args.strike, fn_args.volatility,
                          fn_args.days_to_expiry, fn_args.is_call))
    /\ UNCHANGED <<main_vars, fn_args, fn_delta>>

CallDelta ==
    /\ fn_delta = None
    /\ fn_delta' = Some(Delta(fn_args.current_price, fn_args.strike,
                              fn_args.is_call))
    /\ UNCHANGED <<main_vars, fn_args, fn_prob>>

FnNext == CallProbability \/ CallDelta

FnSpec == FnInit /\ [][FnNext]_vars

(***************************************************************************)
(* The properties.                                                         *)
(***************************************************************************)
\* The batches get_options_data returned, none when it returned None.
Batches == IF options_data = None THEN <<>> ELSE options_data[1]

\* The chain served for the expiration of batch b.
FeedOf(b) ==
    (CHOOSE a \in {asked[i] : i \in 1..Len(asked)} : a.expiration = b.expiration).feed

\* The rows of the strategy's chain the data source served for batch b.
ChainOfBatch(b) ==
    IF strategy = "calls" THEN FeedOf(b).opt.calls ELSE FeedOf(b).opt.puts

\* The price history has fewer than 20 daily returns (and is not empty).
ShortHistory ==
    /\ history # None
    /\ ~history[1].raises
    /\ history[1].close # <<>>
    /\ Len(history[1].close) - 1 < 20

\* C1: a non-empty price history with fewer than 20 daily returns makes
\* get_stock_data report the volatility as unavailable (an error), never
\* return a stock info with error = None whose volatility goes on to the
\* options step and the report.
C1_ShortHistoryUnavailable ==
    ShortHistory => (stock_info = None /\ error # "")

\* C2: with days_to_expiry > 0 and volatility = 0 the probability is the
\* fallback: for a call 30 if strike > current_price else 70, for a put 30
\* if strike < current_price else 70.
C2_ZeroVolatilityFallback ==
    (fn_prob # None /\ fn_args.days_to_expiry > 0 /\ fn_args.volatility = Num(0))
    => fn_prob[1] =
         Num(Scale * (IF fn_args.is_call
                      THEN (IF fn_args.strike > fn_args.current_price THEN 30 ELSE 70)
                      ELSE (IF fn_args.strike < fn_args.current_price THEN 30 ELSE 70)))

\* C3: with days_to_expiry <= 0 the probability is exactly 0, whatever the
\* prices, the volatility (zero, negative, nan or None) and the kind.
C3_ExpiredIsZero ==
    (fn_prob # None /\ fn_args.days_to_expiry <= 0) => fn_prob[1] = Num(0)

\* C3 witness: an expired call with a volatility of None returned 0, not
\* the fallback.
C3_Witness ==
    /\ fn_prob # None
    /\ fn_args.days_to_expiry <= 0
    /\ fn_args.volatility = NoneFloat
    /\ fn_args.strike > fn_args.current_price
    /\ fn_prob[1] = Num(0)

\* C4: the probability of every annotated option of every returned batch is
\* a real number in [0, 100].
C4_ProbabilityInRange ==
    \A i \in 1..Len(Batches) :
        \A j \in 1..Len(Batches[i].options) :
            LET p == Batches[i].options[j].probability
            IN p.k = "num" /\ 0 <= p.v /\ p.v <= 100 * Scale

\* C5: every selected strike lies in the strategy's band around the current
\* price used for its expiration: (price, 1.15 price] for calls,
\* [0.95 price, price) for puts; a strike equal to the price is never selected.
C5_StrikeInBand ==
    \A i \in 1..Len(Batches) :
        LET b == Batches[i]
            price == CurrentPrice(FeedOf(b))
        IN \A j \in 1..Len(b.options) :
            LET k == b.options[j].strike
            IN /\ k # price
               /\ strategy = "calls" => (price < k /\ 100 * k <= 115 * price)
               /\ strategy = "puts" => (95 * price <= 100 * k /\ k < price)

\* C5 witness: a call batch holds the strike at exactly 1.15 times the price
\* while the chain also lists a strike equal to the price.
C5_Witness ==
    \E i \in 1..Len(Batches) :
        LET b == Batches[i]
            price == CurrentPrice(FeedOf(b))
        IN /\ strategy = "calls"
           /\ \E j \in 1..Len(b.options) : 100 * b.options[j].strike = 115 * price
           /\ \E r \in 1..Len(ChainOfBatch(b)) : ChainOfBatch(b)[r].strike = price

\* The chain's columns of an annotated option.
Quote(o) ==
    [strike |-> o.strike, lastPrice |-> o.lastPrice,
     volume |-> o.volume, openInterest |-> o.openInterest]

\* The rows of batch b's chain whose strike passes the band test, in order.
Matching(b) ==
    LET price == CurrentPrice(FeedOf(b))
    IN SelectSeq(ChainOfBatch(b),
                 LAMBDA r : IF strategy = "calls"
                            THEN price < r.strike /\ 100 * r.strike <= 115 * price
                            ELSE 95 * price <= 100 * r.strike /\ r.strike < price)

\* C6: the options of a batch are the first min(10, m) of the m chain rows
\* that pass the band test, in the chain's order, with strike, lastPrice,
\* volume and openInterest unchanged; never more than 10.
C6_FirstTenInOrder ==
    \A i \in 1..Len(Batches) :
        LET b == Batches[i]
            m == Matching(b)
        IN /\ Len(b.options) <= 10
           /\ Len(b.options) = Min(10, Len(m))
           /\ \A j \in 1..Len(b.options) : Quote(b.options[j]) = m[j]

\* C6 witness: more than 10 rows pass the band test and the batch holds 10.
C6_Witness ==
    \E i \in 1..Len(Batches) :
        Len(Matching(Batches[i])) >= 15 /\ Len(Batches[i].options) = 10

\* The expirations of the requests that did not fail, in request order.
Succeeded ==
    LET ok == SelectSeq(asked, LAMBDA a : a.feed.fail = "none")
    IN [i \in 1..Len(ok) |-> ok[i].expiration]

\* C7: with a non-empty listing, get_options_data requests exactly the
\* first two listed expirations, whichever of them fail, and returns no
\* error and exactly one batch per expiration that did not fail, in the
\* listing's order; a failing expiration leaves no batch.
C7_FailuresAreIndependent ==
    (listing # None /\ ~listing[1].raises /\ listing[1].options # <<>>)
    => /\ options_error = ""
       /\ options_data # None
       /\ [i \in 1..Len(asked) |-> asked[i].expiration]
            = SubSeq(listing[1].options, 1, Min(2, Len(listing[1].options)))
       /\ [i \in 1..Len(Batches) |-> Batches[i].expiration] = Succeeded

\* C7 witness: of three listed expirations the first failed and the second
\* gave the only batch.
C7_Witness ==
    /\ listing # None
    /\ Len(listing[1].options) = 3
    /\ Len(asked) = 2
    /\ asked[1].feed.fail # "none"
    /\ asked[2].feed.fail = "none"
    /\ Len(Batches) = 1
    /\ Batches[1].expiration = 2

\* The answer of the data source to stock.history is an empty history.
EmptyHistory == history # None /\ ~history[1].raises /\ history[1].close = <<>>

\* The answer of the data source to stock.options lists no expiration.
EmptyListing == listing # None /\ ~listing[1].raises /\ listing[1].options = <<>>

\* C8: an empty price history gives (None, message), no options request and
\* no report; an empty listing gives (None, message) with no expiration
\* processed; either way the message is printed and main is back at its
\* prompt, not terminated.
C8_UnavailableAbortsSymbol ==
    /\ EmptyHistory =>
         /\ stock_info = None
         /\ error = "No data found for this symbol"
         /\ output[Len(output)] = Msg(error, 0)
         /\ listing = None /\ asked = <<>> /\ options_data = None
         /\ report = None
         /\ pc = "strategy"
    /\ EmptyListing =>
         /\ options_data = None
         /\ options_error = "No options data available"
         /\ asked = <<>>
         /\ \E i \in 1..Len(output) : output[i] = Msg(options_error, 0)
         /\ pc = "strategy"

\* C8 witness: the empty history was reported and main is at its prompt.
C8_Witness ==
    /\ EmptyHistory
    /\ pc = "strategy"
    /\ output # <<>> /\ output[Len(output)].text = "No data found for this symbol"

\* C9: for current_price > 0 and strike > 0 the delta of the annotation step
\* lies in [-1, 1].
C9_DeltaClamped ==
    fn_delta # None =>
        /\ fn_delta[1].d > 0
        /\ -fn_delta[1].d <= fn_delta[1].n
        /\ fn_delta[1].n <= fn_delta[1].d

\* C9 witness: a call whose linear delta exceeds 1 got exactly 1.
C9_Witness ==
    /\ fn_delta # None
    /\ fn_args.is_call
    /\ 10 * (fn_args.current_price - fn_args.strike) > fn_args.current_price
    /\ fn_delta[1].n = fn_delta[1].d

\* C10: for every selected option the linear delta
\* 0.5 + 5 (price - strike) / price (calls), -0.5 + 5 (strike - price) / price
\* (puts) lies in [-0.25, 0.5) for calls and [-0.75, -0.5) for puts, and the
\* stored delta is that value: the clamp is never active.
C10_ClampInactiveOnSelected ==
    \A i \in 1..Len(Batches) :
        LET b == Batches[i]
            price == CurrentPrice(FeedOf(b))
        IN \A j \in 1..Len(b.options) :
            LET k == b.options[j].strike
                \* the linear delta, times 4 * price
                lin4 == IF strategy = "calls" THEN 2 * price + 20 * (price - k)
                        ELSE 20 * (k - price) - 2 * price
                d == b.options[j].delta
            IN /\ price > 0
               /\ strategy = "calls" => (-price <= lin4 /\ lin4 < 2 * price)
               /\ strategy = "puts" => (-3 * price <= lin4 /\ lin4 < -2 * price)
               /\ d.d > 0 /\ d.n * 4 * price = lin4 * d.d

\* C10 witness: a selected call at exactly 1.15 times the price has the
\* stored delta -0.25.
C10_Witness ==
    \E i \in 1..Len(Batches) :
        \E j \in 1..Len(Batches[i].options) :
            LET o == Batches[i].options[j]
            IN /\ strategy = "calls"
               /\ 100 * o.strike = 115 * CurrentPrice(FeedOf(Batches[i]))
               /\ 4 * o.delta.n = -o.delta.d

====
